---- MODULE Spec2Model ----
(***************************************************************************)
(* Model of the flespi synchronizers.                                      *)
(*                                                                         *)
(* Spec       the MQTT -> Event Hubs publisher (src/app.js and its logging *)
(*            variant src/unnamed/part_000): the "message" handler, the    *)
(*            producer's batches and the SIGINT handler.                   *)
(* SpecCycle  the outbox dispatch cycle of spec.md (reader, transformer,   *)
(*            publisher, commit marker, tick scheduler), written from      *)
(*            sections 4.1 to 4.5 of spec.md: src/ holds no code of it.    *)
(* SpecId     the record transformer of the publisher: buildRowFromPayload *)
(*            and makeEventId applied to telemetry objects at clock times. *)
(* SpecStart  process startup: the ENV checks at module load, then main()  *)
(*            of src/app.js and of src/unnamed/part_001, and the liveness  *)
(*            endpoint.                                                    *)
(* SpecMysql  the MQTT -> MySQL writer (src/index.js): loadTableColumns,   *)
(*            the "message" handler and insertDynamic.                     *)
(*                                                                         *)
(* Node.js runs one callback at a time: `cur` names the handler invocation *)
(* whose synchronous section is executing (0: the event loop is idle).     *)
(* Every other callback starts only when cur = 0.  A handler leaves the    *)
(* processor only at an await (createBatch, sendBatch) or when it returns. *)
(***************************************************************************)
EXTENDS Integers, Sequences, FiniteSets, TLC

\* ---- bounds of the model ------------------------------------------------
MaxItems == 2          \* items received in one run of the process, in all
MaxHandlers == 2       \* MQTT messages delivered in one run of the process
MaxSizeInBytes == 3    \* the byte ceiling of one batch (set by the backend)
MaxRecords == 3        \* records in the source store
ReadLimit == 2         \* the batch read limit
ChunkSize == 1         \* identifiers in one update statement

Handlers == 1..MaxHandlers

\* ---- values -------------------------------------------------------------
Undefined == "<undefined>"     \* JavaScript undefined
Null == "<null>"               \* JSON null
Absent == "<absent>"           \* the key is not in the object

BigSize == MaxSizeInBytes + 1  \* a body that fits in no batch
Sizes == {1, 2, BigSize}

\* An element of the parsed payload: a primitive or null ("prim"), or an
\* object with its ident and the encoded size of the event built from it.
PrimItem == [kind |-> "prim", ident |-> Absent, size |-> 0]
ObjItem(id, s) == [kind |-> "obj", ident |-> id, size |-> s]
Idents == {Absent, Null, "", "d1"}
ItemSet ==
  {PrimItem} \cup {ObjItem(id, 0) : id \in Idents \ {"d1"}}
             \cup {ObjItem("d1", s) : s \in Sizes}

SeqsUpTo(S, n) == UNION {[1..k -> S] : k \in 0..n}

\* What JSON.parse makes of the payload, with at most n elements.
Payloads(n) ==
  {[kind |-> "notjson"], [kind |-> "scalar"]}
    \cup {[kind |-> "object", value |-> it] : it \in IF n > 0 THEN ItemSet \ {PrimItem} ELSE {}}
    \cup {[kind |-> "array", value |-> s] : s \in SeqsUpTo(ItemSet, n)}

\* ---- helpers of src/app.js ----------------------------------------------
str(v) ==
  IF v = Null \/ v = Undefined THEN Undefined
  ELSE IF Len(v) > 0 THEN v ELSE Undefined

normalizeToArray(parsed) ==
  IF parsed.kind = "array" THEN parsed.value
  ELSE IF parsed.kind = "object" THEN <<parsed.value>>
  ELSE <<>>

\* `jsonKey in p` throws a TypeError when p is null or a primitive; a key that
\* is not in p, or whose converted value is undefined, leaves the row without
\* the column.  Of the row, the handler reads deviceID alone.
buildRowFromPayload(p) ==
  IF p.kind = "prim" THEN [threw |-> TRUE, deviceID |-> Undefined]
  ELSE [threw |-> FALSE,
        deviceID |-> IF p.ident = Absent THEN Undefined ELSE str(p.ident)]

\* ---- state ----------------------------------------------------------------
VARIABLES
  handlers,   \* handlers[h]: the locals of the h-th invocation of the handler
  stream,     \* stream[h]: the batches of invocation h the Event Hub accepted
  cur,        \* the invocation running synchronously, 0 when none
  mqtt,       \* "connecting" | "subscribed" | "ended"
  proc,       \* "running" | "closing" | "exited" | "crashed"
  producer,   \* "open" | "closed"
  dropped,    \* the operations whose failure was swallowed without a log entry
  \* the outbox dispatch cycle (SpecCycle)
  recKind,    \* recKind[id]: what the transform makes of record id
  processed,  \* processed[id]: the record's flag in the source store
  accepted,   \* the records whose event the stream has accepted
  sched,      \* "Idle" | "Running"
  lastTick,   \* what the last timer fire did: "none" | "started" | "skipped"
  cyc,        \* the locals of the cycle in flight
  \* the record transformer (SpecId)
  clock,      \* the wall clock, read by new Date()
  recs,       \* the telemetry objects given to the transform
  built,      \* the transforms done: which object, its row and its eventID
  \* process startup (SpecStart)
  prog,       \* the program started: "app.js" | "part_001"
  env,        \* the variables of process.env that are set and not empty
  boot,       \* how far startup got
  res,        \* the resources created: "http", "producer", "pool", "mqtt"
  handled,    \* a message has been handled
  probe,      \* the last liveness request: was one made, and the status it got
  \* the MySQL writer (SpecMysql)
  tableColsSet,  \* the columns loadTableColumns found
  writers,       \* writers[w]: the locals of the w-th invocation of the handler
  sqlLog         \* the statements given to db.execute, in order

pvars == <<handlers, stream, cur, mqtt, proc, producer, dropped>>
cvars == <<recKind, processed, accepted, sched, lastTick, cyc>>
ivars == <<clock, recs, built>>
svars == <<prog, env, boot, res, handled, probe>>
mvars == <<tableColsSet, writers, sqlLog>>
\* The variables of the specifications written after the first two.
evars == <<ivars, svars, mvars>>
vars == <<pvars, cvars, evars>>

\* ---- the outbox dispatch cycle: its store, scheduler and locals ------------
Records == 1..MaxRecords
\* What the transform makes of a record: an event of a size, or an error.
RecKinds ==
  {[ok |-> TRUE, size |-> n] : n \in Sizes} \cup {[ok |-> FALSE, size |-> 0]}

IdleCycle ==
  [pc |-> "idle", pending |-> <<>>, k |-> 1, open |-> <<>>,
   flushed |-> <<>>, toMark |-> <<>>, m |-> 1]

CycleInit ==
  /\ processed = [id \in Records |-> FALSE]
  /\ accepted = {}
  /\ sched = "Idle"
  /\ lastTick = "none"
  /\ cyc = IdleCycle

AwaitPcs == {"createBatch0", "sendBatch", "createBatch", "finalSend"}
EndPcs == {"done", "rejected"}

IdleHandler ==
  [pc |-> "idle", items |-> <<>>, i |-> 1, batch |-> <<>>,
   added |-> 0, skipped |-> 0, sent |-> 0,
   tryAdds |-> 0, sends |-> 0, sendFailed |-> FALSE]

PublisherInit ==
  /\ handlers = [h \in Handlers |-> IdleHandler]
  /\ stream = [h \in Handlers |-> <<>>]
  /\ cur = 0
  /\ mqtt = "connecting"
  /\ proc = "running"
  /\ producer = "open"
  /\ dropped = {}

\* The parts of the state a specification does not use stay as they are here.
IdIdle == clock = 0 /\ recs = <<>> /\ built = <<>>
\* No request has been made to the liveness endpoint.
NoProbe == [asked |-> FALSE, status |-> 0]
StartIdle ==
  /\ prog = "app.js" /\ env = {} /\ boot = "load" /\ res = {}
  /\ handled = FALSE /\ probe = NoProbe
MysqlIdle == tableColsSet = {} /\ writers = <<>> /\ sqlLog = <<>>
CycleIdle ==
  /\ recKind = [id \in Records |-> [ok |-> TRUE, size |-> 1]]
  /\ CycleInit

Init ==
  /\ PublisherInit
  /\ CycleIdle
  /\ IdIdle /\ StartIdle /\ MysqlIdle

\* The store holds any records.
InitCycle ==
  /\ PublisherInit
  /\ recKind \in [Records -> RecKinds]
  /\ CycleInit
  /\ IdIdle /\ StartIdle /\ MysqlIdle

\* The items of the messages received so far.
RECURSIVE SumItems(_)
SumItems(hs) ==
  IF hs = {} THEN 0
  ELSE LET h == CHOOSE x \in hs : TRUE
       IN Len(handlers[h].items) + SumItems(hs \ {h})
Received == SumItems(Handlers)

Alive == proc \in {"running", "closing"}

\* ---- EventDataBatch -------------------------------------------------------
RECURSIVE SumSizes(_, _)
SumSizes(items, idxs) ==
  IF idxs = <<>> THEN 0
  ELSE items[Head(idxs)].size + SumSizes(items, Tail(idxs))

\* batch.tryAdd: the event is taken when it still fits under the ceiling.
tryAdd(r, k) == SumSizes(r.items, r.batch) + r.items[k].size <= MaxSizeInBytes

\* ---- the "message" handler (src/unnamed/part_000:179-264, src/app.js:206-259)
\* Each operator below maps the locals r of one invocation to its locals after
\* a piece of the handler's code.

\* A faulty catch, for comparison: it gives the rest of the message up.
CatchItemAbort(r) == [r EXCEPT !.skipped = @ + 1, !.pc = "done"]

\* catch (e) of the per-item try: log, skipped++, go on with the next item.
CatchItem(r) == [r EXCEPT !.skipped = @ + 1, !.i = @ + 1, !.pc = "loop"]

\* A faulty skip, for comparison: the item is passed over and not counted.
SkipNoDeviceUncounted(r) == [r EXCEPT !.i = @ + 1]

\* if (!row.deviceID) { skipped++; continue; }
SkipNoDevice(r) == [r EXCEPT !.skipped = @ + 1, !.i = @ + 1]

\* tryAdd returned true: added++ and the next item.
AddedItem(r) ==
  [r EXCEPT !.batch = Append(@, r.i), !.tryAdds = @ + 1,
            !.added = @ + 1, !.i = @ + 1]

\* tryAdd returned false: await producer.sendBatch(batch).
StartSend(r) ==
  [r EXCEPT !.tryAdds = @ + 1, !.sends = @ + 1, !.pc = "sendBatch"]

\* A faulty ok2 branch, for comparison: the event is logged and not counted.
TooLargeUncounted(r) ==
  [r EXCEPT !.tryAdds = @ + 1, !.i = @ + 1, !.pc = "loop"]

\* ok2 is false: the event is too large; skipped++; continue.
TooLarge(r) ==
  [r EXCEPT !.tryAdds = @ + 1, !.skipped = @ + 1, !.i = @ + 1, !.pc = "loop"]

\* A faulty retry, for comparison: a second rejection flushes again.
RetryAddFlushAgain(r) ==
  LET fresh == [r EXCEPT !.batch = <<>>] IN
  IF tryAdd(fresh, r.i)
  THEN [AddedItem(fresh) EXCEPT !.pc = "loop"]
  ELSE StartSend(fresh)

\* batch = (the fresh batch); ok2 = batch.tryAdd(...); added++ when it is taken.
RetryAdd(r) ==
  LET fresh == [r EXCEPT !.batch = <<>>] IN
  IF tryAdd(fresh, r.i)
  THEN [AddedItem(fresh) EXCEPT !.pc = "loop"]
  ELSE TooLarge(fresh)

\* A faulty loop body, for comparison: the row's deviceID is not looked at.
IterateNoDeviceCheck(r) ==
  LET row == buildRowFromPayload(r.items[r.i]) IN
  IF row.threw THEN CatchItem(r)
  ELSE IF tryAdd(r, r.i) THEN AddedItem(r)
  ELSE StartSend(r)

\* One pass of the body of `for (const p of items)` up to its first await.
Iterate(r) ==
  LET row == buildRowFromPayload(r.items[r.i]) IN
  IF row.threw THEN CatchItem(r)
  ELSE IF row.deviceID = Undefined THEN SkipNoDevice(r)
  ELSE IF tryAdd(r, r.i) THEN AddedItem(r)
  ELSE StartSend(r)

\* After the loop: if (batch.count > 0) await producer.sendBatch(batch); log.
AfterLoop(r) ==
  IF Len(r.batch) > 0
  THEN [r EXCEPT !.sends = @ + 1, !.pc = "finalSend"]
  ELSE [r EXCEPT !.pc = "done"]

\* A faulty handler, for comparison: `if (!items.length) return` is missing.
OnMessageNoLengthCheck(r, payload) ==
  IF payload.kind = "notjson" THEN [r EXCEPT !.pc = "done"]
  ELSE [r EXCEPT !.pc = "createBatch0", !.items = normalizeToArray(payload)]

\* The handler up to `await producer.createBatch()`.
OnMessage(r, payload) ==
  IF payload.kind = "notjson" THEN [r EXCEPT !.pc = "done"]
  ELSE LET items == normalizeToArray(payload) IN
       IF Len(items) = 0 THEN [r EXCEPT !.pc = "done"]
       ELSE [r EXCEPT !.pc = "createBatch0", !.items = items]

\* The processor is given up at an await and at the handler's end.
Yield(h, r) == IF r.pc \in AwaitPcs \cup EndPcs THEN 0 ELSE h

\* An async handler whose promise rejects: a warning, or (the default since
\* Node 15) the process ends.
Unhandled == {proc, "crashed"}

\* ---- actions --------------------------------------------------------------
\* mqtt.js emits "message" with one received publish packet.
Message(h) ==
  /\ Alive /\ cur = 0 /\ mqtt = "subscribed"
  /\ handlers[h].pc = "idle"
  /\ \A g \in Handlers : g < h => handlers[g].pc # "idle"
  /\ \E payload \in Payloads(MaxItems - Received) :
       handlers' = [handlers EXCEPT ![h] = OnMessage(@, payload)]
  /\ UNCHANGED <<stream, cur, mqtt, proc, producer, dropped, cvars, evars>>

\* let batch = await producer.createBatch()   (before the loop)
CreateBatch0Ok(h) ==
  /\ Alive /\ cur = 0 /\ handlers[h].pc = "createBatch0"
  /\ handlers' = [handlers EXCEPT ![h] = [@ EXCEPT !.batch = <<>>, !.pc = "loop"]]
  /\ cur' = h
  /\ UNCHANGED <<stream, mqtt, proc, producer, dropped, cvars, evars>>

CreateBatch0Fail(h) ==
  /\ Alive /\ cur = 0 /\ handlers[h].pc = "createBatch0"
  /\ handlers' = [handlers EXCEPT ![h] = [@ EXCEPT !.pc = "rejected"]]
  /\ proc' \in Unhandled
  /\ UNCHANGED <<stream, cur, mqtt, producer, dropped, cvars, evars>>

\* The synchronous run of the loop, one item at a time, and the code after it.
LoopStep(h) ==
  /\ Alive /\ cur = h /\ handlers[h].pc = "loop"
  /\ LET r == handlers[h]
         n == IF r.i > Len(r.items) THEN AfterLoop(r) ELSE Iterate(r)
     IN /\ handlers' = [handlers EXCEPT ![h] = n]
        /\ cur' = Yield(h, n)
  /\ UNCHANGED <<stream, mqtt, proc, producer, dropped, cvars, evars>>

\* await producer.sendBatch(batch) in the loop resolves: sent += batch.count,
\* then batch = await producer.createBatch().
SendBatchOk(h) ==
  /\ Alive /\ cur = 0 /\ handlers[h].pc = "sendBatch"
  /\ stream' = [stream EXCEPT ![h] = Append(@, handlers[h].batch)]
  /\ handlers' = [handlers EXCEPT ![h] =
       [@ EXCEPT !.sent = @ + Len(handlers[h].batch), !.pc = "createBatch"]]
  /\ UNCHANGED <<cur, mqtt, proc, producer, dropped, cvars, evars>>

\* ... rejects: the per-item catch takes it.
SendBatchFail(h) ==
  /\ Alive /\ cur = 0 /\ handlers[h].pc = "sendBatch"
  /\ LET n == CatchItem([handlers[h] EXCEPT !.sendFailed = TRUE])
     IN /\ handlers' = [handlers EXCEPT ![h] = n]
        /\ cur' = Yield(h, n)
  /\ UNCHANGED <<stream, mqtt, proc, producer, dropped, cvars, evars>>

\* batch = await producer.createBatch() in the loop resolves: the retry.
CreateBatchOk(h) ==
  /\ Alive /\ cur = 0 /\ handlers[h].pc = "createBatch"
  /\ LET n == RetryAdd(handlers[h])
     IN /\ handlers' = [handlers EXCEPT ![h] = n]
        /\ cur' = Yield(h, n)
  /\ UNCHANGED <<stream, mqtt, proc, producer, dropped, cvars, evars>>

\* ... rejects: `batch` keeps the batch that was just sent.
CreateBatchFail(h) ==
  /\ Alive /\ cur = 0 /\ handlers[h].pc = "createBatch"
  /\ LET n == CatchItem(handlers[h])
     IN /\ handlers' = [handlers EXCEPT ![h] = n]
        /\ cur' = Yield(h, n)
  /\ UNCHANGED <<stream, mqtt, proc, producer, dropped, cvars, evars>>

\* The sendBatch after the loop.
FinalSendOk(h) ==
  /\ Alive /\ cur = 0 /\ handlers[h].pc = "finalSend"
  /\ stream' = [stream EXCEPT ![h] = Append(@, handlers[h].batch)]
  /\ handlers' = [handlers EXCEPT ![h] =
       [@ EXCEPT !.sent = @ + Len(handlers[h].batch), !.pc = "done"]]
  /\ UNCHANGED <<cur, mqtt, proc, producer, dropped, cvars, evars>>

FinalSendFail(h) ==
  /\ Alive /\ cur = 0 /\ handlers[h].pc = "finalSend"
  /\ handlers' = [handlers EXCEPT ![h] = [@ EXCEPT !.pc = "rejected"]]
  /\ proc' \in Unhandled
  /\ UNCHANGED <<stream, cur, mqtt, producer, dropped, cvars, evars>>

\* client.on("connect"): subscribe.
Connect ==
  /\ Alive /\ cur = 0 /\ mqtt = "connecting"
  /\ mqtt' = "subscribed"
  /\ UNCHANGED <<handlers, stream, cur, proc, producer, dropped, cvars, evars>>

\* A faulty SIGINT handler, for comparison: it closes the producer before it
\* ends the client.
SigintCloseFirst ==
  /\ Alive /\ cur = 0
  /\ proc' = "closing"
  /\ UNCHANGED <<handlers, stream, cur, mqtt, producer, dropped, cvars, evars>>

\* process.on("SIGINT"): client.end(true), then await producer.close().
Sigint ==
  /\ Alive /\ cur = 0
  /\ mqtt' = "ended"
  /\ proc' = "closing"
  /\ UNCHANGED <<handlers, stream, cur, producer, dropped, cvars, evars>>

\* producer.close() resolves; process.exit(0).
CloseOk ==
  /\ proc = "closing" /\ cur = 0
  /\ producer' = "closed"
  /\ proc' = "exited"
  /\ UNCHANGED <<handlers, stream, cur, mqtt, dropped, cvars, evars>>

\* producer.close() rejects; `catch {}` has no statement: nothing is logged;
\* process.exit(0).
CloseFail ==
  /\ proc = "closing" /\ cur = 0
  /\ proc' = "exited"
  /\ dropped' = dropped \cup {"producer.close"}
  /\ UNCHANGED <<handlers, stream, cur, mqtt, producer, cvars, evars>>

Next ==
  \/ \E h \in Handlers : Message(h)
  \/ \E h \in Handlers : CreateBatch0Ok(h)
  \/ \E h \in Handlers : CreateBatch0Fail(h)
  \/ \E h \in Handlers : LoopStep(h)
  \/ \E h \in Handlers : SendBatchOk(h)
  \/ \E h \in Handlers : SendBatchFail(h)
  \/ \E h \in Handlers : CreateBatchOk(h)
  \/ \E h \in Handlers : CreateBatchFail(h)
  \/ \E h \in Handlers : FinalSendOk(h)
  \/ \E h \in Handlers : FinalSendFail(h)
  \/ Connect
  \/ Sigint
  \/ CloseOk
  \/ CloseFail

Spec == Init /\ [][Next]_vars

\* ---- the outbox dispatch cycle (spec.md, sections 4.1 to 4.5) --------------
Range(seq) == {seq[j] : j \in DOMAIN seq}

RECURSIVE Ascending(_)
Ascending(S) ==
  IF S = {} THEN <<>>
  ELSE LET least == CHOOSE x \in S : \A y \in S : x <= y
       IN <<least>> \o Ascending(S \ {least})

Take(seq, n) == SubSeq(seq, 1, IF n < Len(seq) THEN n ELSE Len(seq))

\* 4.1 Batch Reader: rows with processed = false, ascending, capped at limit.
fetchPending(limit) == Take(Ascending({id \in Records : ~processed[id]}), limit)

RECURSIVE OpenBytes(_)
OpenBytes(open) ==
  IF open = <<>> THEN 0 ELSE recKind[Head(open)].size + OpenBytes(Tail(open))

\* batch.tryAppend(event): false signals that the size ceiling is reached.
tryAppend(open, id) == OpenBytes(open) + recKind[id].size <= MaxSizeInBytes

\* 4.4 Commit Marker: handed the identifiers of the flushed batches.
StartCommit(c) == [c EXCEPT !.toMark = c.flushed, !.m = 1, !.pc = "commit"]

\* A faulty abort, for comparison: the failed batch counts as published.
AfterFlushFailureMarkOpen(c) ==
  StartCommit([c EXCEPT !.flushed = @ \o c.open, !.open = <<>>])

\* 4.3 Failure: a flush failure aborts the cycle; no identifier of an event
\* that was not flushed is passed on.
AfterFlushFailure(c) == StartCommit([c EXCEPT !.open = <<>>])

\* 4.3: one event of the input: append, or flush when the append is rejected.
PublishOne(c) ==
  LET id == c.pending[c.k] IN
  IF ~recKind[id].ok THEN [c EXCEPT !.k = @ + 1]
  ELSE IF tryAppend(c.open, id)
       THEN [c EXCEPT !.open = Append(@, id), !.k = @ + 1]
       ELSE [c EXCEPT !.pc = "flush"]

\* 4.3: the input is exhausted: flush any non-empty open batch.
PublishEnd(c) ==
  IF c.open # <<>> THEN [c EXCEPT !.pc = "flushLast"] ELSE StartCommit(c)

\* 4.3: the flush succeeded: a fresh batch, and the append retried once.
AfterFlush(c) ==
  LET id == c.pending[c.k]
      f == [c EXCEPT !.flushed = @ \o c.open, !.open = <<>>, !.pc = "publish"]
  IN IF tryAppend(<<>>, id)
     THEN [f EXCEPT !.open = <<id>>, !.k = @ + 1]
     ELSE [f EXCEPT !.k = @ + 1]

Chunk(c) ==
  SubSeq(c.toMark, c.m,
         IF c.m + ChunkSize - 1 < Len(c.toMark)
         THEN c.m + ChunkSize - 1 ELSE Len(c.toMark))

\* 4.5 Tick Scheduler: a timer fire in Idle starts a cycle ...
TickStart ==
  /\ sched = "Idle"
  /\ sched' = "Running"
  /\ lastTick' = "started"
  /\ cyc' = [IdleCycle EXCEPT !.pc = "read"]
  /\ UNCHANGED <<recKind, processed, accepted, pvars, evars>>

\* ... and in Running is logged and skipped.
TickSkip ==
  /\ sched = "Running"
  /\ lastTick' = "skipped"
  /\ UNCHANGED <<recKind, processed, accepted, sched, cyc, pvars, evars>>

ReadOk ==
  /\ cyc.pc = "read"
  /\ cyc' = [cyc EXCEPT !.pending = fetchPending(ReadLimit), !.pc = "publish"]
  /\ UNCHANGED <<recKind, processed, accepted, sched, lastTick, pvars, evars>>

\* SourceUnavailable aborts the cycle without side effects.
ReadFail ==
  /\ cyc.pc = "read"
  /\ cyc' = IdleCycle
  /\ sched' = "Idle"
  /\ UNCHANGED <<recKind, processed, accepted, lastTick, pvars, evars>>

PublishStep ==
  /\ cyc.pc = "publish"
  /\ cyc' = IF cyc.k > Len(cyc.pending) THEN PublishEnd(cyc) ELSE PublishOne(cyc)
  /\ UNCHANGED <<recKind, processed, accepted, sched, lastTick, pvars, evars>>

FlushOk ==
  /\ cyc.pc = "flush"
  /\ accepted' = accepted \cup Range(cyc.open)
  /\ cyc' = AfterFlush(cyc)
  /\ UNCHANGED <<recKind, processed, sched, lastTick, pvars, evars>>

FlushLastOk ==
  /\ cyc.pc = "flushLast"
  /\ accepted' = accepted \cup Range(cyc.open)
  /\ cyc' = StartCommit([cyc EXCEPT !.flushed = @ \o cyc.open, !.open = <<>>])
  /\ UNCHANGED <<recKind, processed, sched, lastTick, pvars, evars>>

FlushFail ==
  /\ cyc.pc \in {"flush", "flushLast"}
  /\ cyc' = AfterFlushFailure(cyc)
  /\ UNCHANGED <<recKind, processed, accepted, sched, lastTick, pvars, evars>>

\* One update statement marks one chunk.
CommitChunkOk ==
  /\ cyc.pc = "commit" /\ cyc.m <= Len(cyc.toMark)
  /\ processed' = [id \in Records |-> processed[id] \/ id \in Range(Chunk(cyc))]
  /\ cyc' = [cyc EXCEPT !.m = @ + ChunkSize]
  /\ UNCHANGED <<recKind, accepted, sched, lastTick, pvars, evars>>

\* CommitError: the chunks after the failing one are not attempted.
CommitChunkFail ==
  /\ cyc.pc = "commit" /\ cyc.m <= Len(cyc.toMark)
  /\ cyc' = IdleCycle
  /\ sched' = "Idle"
  /\ UNCHANGED <<recKind, processed, accepted, lastTick, pvars, evars>>

CycleEnd ==
  /\ cyc.pc = "commit" /\ cyc.m > Len(cyc.toMark)
  /\ cyc' = IdleCycle
  /\ sched' = "Idle"
  /\ UNCHANGED <<recKind, processed, accepted, lastTick, pvars, evars>>

NextCycle ==
  \/ TickStart
  \/ TickSkip
  \/ ReadOk
  \/ ReadFail
  \/ PublishStep
  \/ FlushOk
  \/ FlushLastOk
  \/ FlushFail
  \/ CommitChunkOk
  \/ CommitChunkFail
  \/ CycleEnd

SpecCycle == InitCycle /\ [][NextCycle]_vars

\* ---- the record transformer (src/unnamed/part_000:69-143, src/app.js:61-170)
\* Numbers of time are written in units of 10^9: the limits below and the
\* factor 1000 of unixSecondsToIsoUtc keep their ratios.
MaxClock == 2          \* the last reading of the wall clock
MaxBuilds == 2         \* the transforms done in one run
MsThreshold == 1000    \* 1e12: a timestamp above it is taken as milliseconds
MaxDateMs == 8640000   \* 8.64e15: the last millisecond a Date can hold

\* A JSON value of the key "timestamp": not in the object, a text that is no
\* number, or a number.
RawAbsent == [t |-> "absent", n |-> 0]
RawText == [t |-> "text", n |-> 0]
RawNum(x) == [t |-> "num", n |-> x]
Stamps == {RawAbsent, RawText} \cup {RawNum(x) : x \in {1, 2, 2000, 9000000}}

\* A telemetry object: ident, timestamp, and position.latitude, which stands
\* for the rest of the message (two objects that differ in it are two records).
Telemetry == [ident : {Absent, "d1", "d2"}, timestamp : Stamps, lat : {1, 2}]

\* Date.prototype.toISOString of the date of millisecond ms.
toISOString(ms) == "T" \o ToString(ms) \o "Z"

\* unixSecondsToIsoUtc: undefined for no number; seconds are made milliseconds;
\* `threw` when new Date(ms) is an invalid date (toISOString: RangeError).
unixSecondsToIsoUtc(ts) ==
  IF ts.t = "text" THEN [threw |-> FALSE, value |-> Undefined]
  ELSE LET ms == IF ts.n > MsThreshold THEN ts.n ELSE ts.n * 1000 IN
       IF ms > MaxDateMs THEN [threw |-> TRUE, value |-> Undefined]
       ELSE [threw |-> FALSE, value |-> toISOString(ms)]

\* buildRowFromPayload(p) run when new Date() reads `now`.
buildRowFromPayloadAt(p, now) ==
  LET dt == IF p.timestamp = RawAbsent
            THEN [threw |-> FALSE, value |-> Undefined]
            ELSE unixSecondsToIsoUtc(p.timestamp)
  IN [threw |-> dt.threw,
      deviceID |-> IF p.ident = Absent THEN Undefined ELSE str(p.ident),
      dateTime |-> dt.value,
      latitude |-> p.lat,
      insertDateTime |-> toISOString(now)]

Falsy(v) == v = Undefined \/ v = ""

\* A faulty makeEventId, for comparison: the capture time is part of the id.
makeEventIdStamped(row) ==
  (IF Falsy(row.deviceID) THEN "noDevice" ELSE row.deviceID)
    \o "_" \o row.insertDateTime

\* makeEventId: `${row.deviceID || "noDevice"}_${row.dateTime || ""}`
makeEventId(row) ==
  LET device == IF Falsy(row.deviceID) THEN "noDevice" ELSE row.deviceID
      dt == IF Falsy(row.dateTime) THEN "" ELSE row.dateTime
  IN device \o "_" \o dt

\* The body of the loop for one object: the row, then the event with its
\* eventId and _receivedAtUtc; no event when the transform throws or the row
\* has no deviceID.
eventBody(p, now) ==
  LET row == buildRowFromPayloadAt(p, now) IN
  IF row.threw \/ Falsy(row.deviceID)
  THEN [row |-> row, eventId |-> Undefined, receivedAtUtc |-> Undefined]
  ELSE [row |-> row, eventId |-> makeEventId(row),
        receivedAtUtc |-> toISOString(now)]

InitId ==
  /\ PublisherInit /\ CycleIdle /\ StartIdle /\ MysqlIdle
  /\ clock = 0
  /\ recs \in [1..2 -> Telemetry]
  /\ built = <<>>

\* Time passes.
Tick ==
  /\ clock < MaxClock
  /\ clock' = clock + 1
  /\ UNCHANGED <<recs, built, pvars, cvars, svars, mvars>>

\* Object k goes through the transform.
Transform(k) ==
  /\ Len(built) < MaxBuilds
  /\ built' = Append(built, [k |-> k, event |-> eventBody(recs[k], clock)])
  /\ UNCHANGED <<clock, recs, pvars, cvars, svars, mvars>>

NextId ==
  \/ Tick
  \/ \E k \in DOMAIN recs : Transform(k)

SpecId == InitId /\ [][NextId]_vars

\* ---- process startup (src/app.js:25-34, 173-202; src/unnamed/part_001:7-20,
\* 172-200) --------------------------------------------------------------------
Progs == {"app.js", "part_001"}

\* The variables of process.env each program reads.
EnvVars(p) ==
  IF p = "app.js"
  THEN {"FLESPI_TOKEN", "CHANNEL_ID", "EVENTHUB_CONNECTION_STRING",
        "EVENTHUB_NAME", "PORT"}
  ELSE {"FLESPI_TOKEN", "CHANNEL_ID", "MYSQL_HOST", "MYSQL_PORT", "MYSQL_USER",
        "MYSQL_PASSWORD", "MYSQL_DATABASE", "PORT"}

\* !X: the variable is not set, or is the empty string.
Missing(v) == v \notin env

\* The `if (!X) throw new Error(...)` lines at module level.  MYSQL_PORT,
\* MYSQL_PASSWORD and PORT are read with `|| default` and never throw.
ConfigError ==
  IF prog = "app.js"
  THEN \/ Missing("FLESPI_TOKEN")
       \/ Missing("CHANNEL_ID")
       \/ Missing("EVENTHUB_CONNECTION_STRING")
       \/ Missing("EVENTHUB_NAME")
  ELSE \/ Missing("FLESPI_TOKEN")
       \/ Missing("CHANNEL_ID")
       \/ Missing("MYSQL_HOST") \/ Missing("MYSQL_USER") \/ Missing("MYSQL_DATABASE")

InitStart ==
  /\ PublisherInit /\ CycleIdle /\ IdIdle /\ MysqlIdle
  /\ prog \in Progs
  /\ env \in SUBSET EnvVars(prog)
  /\ boot = "load"
  /\ res = {}
  /\ handled = FALSE
  /\ probe = NoProbe

\* main() up to its first await.  app.js: the HTTP server listens, the
\* producer and the MQTT client are created, all in one synchronous run.
\* part_001: the pool is created and loadTableColumns is awaited.
StartMain ==
  IF prog = "app.js"
  THEN boot' = "running" /\ res' = {"http", "producer", "mqtt"}
  ELSE boot' = "columns" /\ res' = {"pool"}

\* A faulty module, for comparison: main() is called before the checks are made.
LoadModuleMainFirst ==
  /\ boot = "load"
  /\ StartMain
  /\ UNCHANGED <<prog, env, handled, probe, pvars, cvars, ivars, mvars>>

\* node <program>: the module's top level runs; a failed check throws, which
\* ends the process before main() is called.
LoadModule ==
  /\ boot = "load"
  /\ IF ConfigError THEN boot' = "failed" /\ res' = res ELSE StartMain
  /\ UNCHANGED <<prog, env, handled, probe, pvars, cvars, ivars, mvars>>

\* part_001: loadTableColumns resolves; then the HTTP server and the MQTT client.
ColumnsOk ==
  /\ boot = "columns"
  /\ boot' = "running"
  /\ res' = res \cup {"http", "mqtt"}
  /\ UNCHANGED <<prog, env, handled, probe, pvars, cvars, ivars, mvars>>

\* ... rejects: main().catch logs and calls process.exit(1).
ColumnsFail ==
  /\ boot = "columns"
  /\ boot' = "exited"
  /\ res' = {}
  /\ UNCHANGED <<prog, env, handled, probe, pvars, cvars, ivars, mvars>>

\* An HTTP request to the liveness port while the process runs: the server
\* answers 200 when it listens; there is no answer when nothing listens.
ProbeRequest ==
  /\ boot \in {"columns", "running"}
  /\ probe' = [asked |-> TRUE, status |-> IF "http" \in res THEN 200 ELSE 0]
  /\ UNCHANGED <<prog, env, boot, res, handled, pvars, cvars, ivars, mvars>>

\* The MQTT client delivers a message to the handler.
MessageHandled ==
  /\ boot = "running" /\ "mqtt" \in res
  /\ handled' = TRUE
  /\ UNCHANGED <<prog, env, boot, res, probe, pvars, cvars, ivars, mvars>>

\* SIGINT: the process ends.
Stop ==
  /\ boot \in {"columns", "running"}
  /\ boot' = "exited"
  /\ res' = {}
  /\ UNCHANGED <<prog, env, handled, probe, pvars, cvars, ivars, mvars>>

NextStart ==
  \/ LoadModule
  \/ ColumnsOk
  \/ ColumnsFail
  \/ ProbeRequest
  \/ MessageHandled
  \/ Stop

SpecStart == InitStart /\ [][NextStart]_vars

\* ---- the MySQL writer (src/index.js) ---------------------------------------
MaxRows == 2           \* items received in one run of the writer, in all
MaxWriters == 2        \* MQTT messages delivered in one run of the writer

Writers == 1..MaxWriters

\* JSON values and JavaScript values: a number, a string, or none.
JNone == [t |-> "none", n |-> 0, s |-> ""]
JNum(x) == [t |-> "num", n |-> x, s |-> ""]
JStr(x) == [t |-> "str", n |-> 0, s |-> x]

\* num: undefined when Number(v) is not finite.
numValue(v) ==
  IF v.t = "num" THEN v
  ELSE IF v.s = "" THEN JNum(0)
  ELSE JNone

\* str: String(v), undefined when it is empty.
strValue(v) ==
  LET s == IF v.t = "num" THEN ToString(v.n) ELSE v.s IN
  IF Len(s) > 0 THEN JStr(s) ELSE JNone

\* KEY_TO_COL with CONVERTERS, in the order of the object literal; of its 34
\* keys, one with num and the one with str.
KEY_TO_COL ==
  << [key |-> "battery.level", col |-> "batterylevel", conv |-> "num"],
     [key |-> "ident", col |-> "ident", conv |-> "str"] >>

Convert(conv, v) == IF conv = "num" THEN numValue(v) ELSE strValue(v)

\* An item of the message: a primitive or null, or an object that may hold
\* the two keys (has[key] says whether `key in p`).
SqlPrim == [kind |-> "prim", level |-> JNone, ident |-> JNone, has |-> {}]
SqlObjs ==
  {[kind |-> "obj", level |-> JNone, ident |-> JNone, has |-> {}]}
    \cup {[kind |-> "obj", level |-> lv, ident |-> JNone, has |-> {"battery.level"}] :
            lv \in {JNum(7), JStr("x")}}
    \cup {[kind |-> "obj", level |-> JNone, ident |-> id, has |-> {"ident"}] :
            id \in {JStr(""), JStr("d1")}}
    \cup {[kind |-> "obj", level |-> lv, ident |-> id,
           has |-> {"battery.level", "ident"}] :
            lv \in {JNum(7), JStr("x")}, id \in {JStr(""), JStr("d1")}}
SqlItems == {SqlPrim} \cup SqlObjs

SqlPayloads(n) ==
  {[kind |-> "notjson"], [kind |-> "scalar"]}
    \cup {[kind |-> "object", value |-> it] : it \in IF n > 0 THEN SqlObjs ELSE {}}
    \cup {[kind |-> "array", value |-> s] : s \in SeqsUpTo(SqlItems, n)}

ValueOf(p, key) == IF key = "ident" THEN p.ident ELSE p.level

\* buildRowFromPayload of index.js: the row as the sequence of its entries, in
\* the order the keys were set; a key not in p, or converted to undefined, sets
\* none.  `key in p` throws when p is null or a primitive.
RECURSIVE RowEntries(_, _)
RowEntries(p, j) ==
  IF j > Len(KEY_TO_COL) THEN <<>>
  ELSE LET e == KEY_TO_COL[j]
           value == Convert(e.conv, ValueOf(p, e.key))
       IN IF e.key \notin p.has \/ value = JNone
          THEN RowEntries(p, j + 1)
          ELSE <<[col |-> e.col, val |-> value]>> \o RowEntries(p, j + 1)

buildRowSql(p) ==
  IF p.kind = "prim" THEN [threw |-> TRUE, entries |-> <<>>]
  ELSE [threw |-> FALSE, entries |-> RowEntries(p, 1)]

\* Object.keys(row) and row[c].
Keys(entries) == [j \in DOMAIN entries |-> entries[j].col]
Get(entries, c) ==
  IF \E j \in DOMAIN entries : entries[j].col = c
  THEN entries[CHOOSE j \in DOMAIN entries : entries[j].col = c].val
  ELSE JNone

\* The columns a table x200 may have.
TableCols == {"idmensaje", "ident", "batterylevel"}

\* A faulty insertDynamic, for comparison: every key of the row is named.
insertDynamicUnfiltered(cols_set, entries) ==
  LET cols == Keys(entries) IN
  IF Len(cols) = 0 THEN <<>>
  ELSE <<[cols |-> cols,
          vals |-> [j \in DOMAIN cols |-> Get(entries, cols[j])],
          placeholders |-> Len(cols)]>>

\* insertDynamic: the statement given to db.execute, if any.
insertDynamic(cols_set, entries) ==
  LET InTable(c) == c \in cols_set
      cols == SelectSeq(Keys(entries), InTable)
  IN IF Len(cols) = 0 THEN <<>>
     ELSE <<[cols |-> cols,
             vals |-> [j \in DOMAIN cols |-> Get(entries, cols[j])],
             placeholders |-> Len(cols)]>>

IdleWriter == [pc |-> "idle", items |-> <<>>, i |-> 1]

\* The state when main() has loaded the columns and the handler is registered.
InitMysql ==
  /\ PublisherInit /\ CycleIdle /\ IdIdle /\ StartIdle
  /\ tableColsSet \in SUBSET TableCols
  /\ writers = [w \in Writers |-> IdleWriter]
  /\ sqlLog = [w \in Writers |-> <<>>]

RECURSIVE SumRows(_)
SumRows(ws) ==
  IF ws = {} THEN 0
  ELSE LET w == CHOOSE x \in ws : TRUE
       IN Len(writers[w].items) + SumRows(ws \ {w})

\* The loop from item r.i up to the next db.execute: the locals then, and the
\* statement issued (none when the items are exhausted).
RECURSIVE RunLoop(_)
RunLoop(r) ==
  IF r.i > Len(r.items) THEN [r |-> [r EXCEPT !.pc = "done"], stmt |-> <<>>]
  ELSE LET row == buildRowSql(r.items[r.i])
           next == [r EXCEPT !.i = @ + 1]
       IN IF row.threw THEN RunLoop(next)
          ELSE IF Get(row.entries, "ident") = JNone THEN RunLoop(next)
          ELSE LET stmt == insertDynamic(tableColsSet, row.entries) IN
               IF stmt = <<>> THEN RunLoop(next)
               ELSE [r |-> [r EXCEPT !.pc = "execute"], stmt |-> stmt]

Issue(w, run) ==
  /\ writers' = [writers EXCEPT ![w] = run.r]
  /\ sqlLog' = IF run.stmt = <<>> THEN sqlLog
               ELSE [sqlLog EXCEPT ![w] =
                      Append(@, [k |-> run.r.i, stmt |-> run.stmt[1], state |-> "pending"])]

\* client.on("message"): parse, normalize, and the loop up to its first await.
MessageSql(w) ==
  /\ writers[w].pc = "idle"
  /\ \A g \in Writers : g < w => writers[g].pc # "idle"
  /\ \E payload \in SqlPayloads(MaxRows - SumRows(Writers)) :
       IF payload.kind = "notjson"
       THEN Issue(w, [r |-> [writers[w] EXCEPT !.pc = "done"], stmt |-> <<>>])
       ELSE Issue(w, RunLoop([writers[w] EXCEPT !.items = normalizeToArray(payload)]))
  /\ UNCHANGED <<tableColsSet, pvars, cvars, ivars, svars>>

Resolve(w, how) ==
  [sqlLog EXCEPT ![w] = [@ EXCEPT ![Len(@)] = [@ EXCEPT !.state = how]]]

\* A faulty catch, for comparison: the failure ends the handler.
ExecuteFailAbort(w) ==
  /\ writers[w].pc = "execute"
  /\ writers' = [writers EXCEPT ![w] = [@ EXCEPT !.pc = "done"]]
  /\ sqlLog' = Resolve(w, "failed")
  /\ UNCHANGED <<tableColsSet, pvars, cvars, ivars, svars>>

\* await db.execute(sql, vals) resolves: the next item.
ExecuteOk(w) ==
  /\ writers[w].pc = "execute"
  /\ LET run == RunLoop([writers[w] EXCEPT !.i = @ + 1, !.pc = "loop"])
     IN /\ writers' = [writers EXCEPT ![w] = run.r]
        /\ sqlLog' = IF run.stmt = <<>> THEN Resolve(w, "ok")
                     ELSE [Resolve(w, "ok") EXCEPT ![w] =
                            Append(@, [k |-> run.r.i, stmt |-> run.stmt[1],
                                       state |-> "pending"])]
  /\ UNCHANGED <<tableColsSet, pvars, cvars, ivars, svars>>

\* ... rejects: the catch inside the loop logs it; the next item.
ExecuteFail(w) ==
  /\ writers[w].pc = "execute"
  /\ LET run == RunLoop([writers[w] EXCEPT !.i = @ + 1, !.pc = "loop"])
     IN /\ writers' = [writers EXCEPT ![w] = run.r]
        /\ sqlLog' = IF run.stmt = <<>> THEN Resolve(w, "failed")
                     ELSE [Resolve(w, "failed") EXCEPT ![w] =
                            Append(@, [k |-> run.r.i, stmt |-> run.stmt[1],
                                       state |-> "pending"])]
  /\ UNCHANGED <<tableColsSet, pvars, cvars, ivars, svars>>

NextMysql ==
  \/ \E w \in Writers : MessageSql(w)
  \/ \E w \in Writers : ExecuteOk(w)
  \/ \E w \in Writers : ExecuteFail(w)

SpecMysql == InitMysql /\ [][NextMysql]_vars

\* ---- what the claims speak of ---------------------------------------------
RECURSIVE Flat(_)
Flat(batches) ==
  IF batches = <<>> THEN <<>> ELSE Head(batches) \o Flat(Tail(batches))

Count(seq, k) == Cardinality({j \in DOMAIN seq : seq[j] = k})

\* The events of run h the Event Hub accepted, in the order it accepted them.
Accepted(h) == Flat(stream[h])

WellFormed(p) ==
  /\ ~buildRowFromPayload(p).threw
  /\ buildRowFromPayload(p).deviceID # Undefined
Oversized(p) == WellFormed(p) /\ p.size > MaxSizeInBytes
Deliverable(p) == WellFormed(p) /\ p.size <= MaxSizeInBytes

Started(h) == handlers[h].pc # "idle"
InFlight(h) == handlers[h].pc \notin {"idle"} \cup EndPcs

\* C1: a record's processed flag never goes back to false, becomes true only
\* when the stream has already accepted the record's event, and the
\* identifiers handed to the commit step are identifiers of events of batches
\* this cycle flushed with success.
C1_ProcessedOnlyAfterFlush ==
  [][/\ \A id \in Records : processed[id] => processed'[id]
     /\ \A id \in Records : (~processed[id] /\ processed'[id]) => id \in accepted
     /\ Range(cyc'.toMark) \subseteq Range(cyc'.flushed)
     /\ Range(cyc'.flushed) \subseteq accepted']_vars

C1_Witness ==
  /\ \E id \in Records : processed[id] /\ id \in accepted
  /\ \E id \in Records : ~processed[id] /\ id \in accepted
  /\ \E id \in Records : ~processed[id] /\ id \notin accepted /\ recKind[id].ok
  /\ sched = "Idle"

\* C2: when a publish run completes, every event that was not skipped is in
\* exactly one batch that was flushed.
C2_ExactlyOneFlushedBatch ==
  \A h \in Handlers :
    handlers[h].pc = "done" =>
      \A k \in DOMAIN handlers[h].items :
        Deliverable(handlers[h].items[k]) => Count(Accepted(h), k) = 1

\* C3: once a sendBatch of a run has failed, the run makes no further tryAdd
\* and no further sendBatch call.
C3_AbortOnFlushFailure ==
  [][\A h \in Handlers :
       handlers[h].sendFailed =>
         /\ handlers'[h].tryAdds = handlers[h].tryAdds
         /\ handlers'[h].sends = handlers[h].sends]_vars

\* C4: no deliverable event is lost: a run that has ended (after it nothing
\* retries its message) has had each of its deliverable events accepted.
C4_NoPermanentLoss ==
  \A h \in Handlers :
    handlers[h].pc \in EndPcs =>
      \A k \in DOMAIN handlers[h].items :
        Deliverable(handlers[h].items[k]) => Count(Accepted(h), k) >= 1

\* C5: at most one run is between its start and its completion.
C5_AtMostOneInFlight ==
  Cardinality({h \in Handlers : InFlight(h)}) <= 1

\* C6: the concatenation of the flushed batches of a run is a subsequence of
\* its input, in input order (the positions of the input strictly increase).
C6_OrderPreserving ==
  \A h \in Handlers :
    \A a, b \in DOMAIN Accepted(h) :
      a < b => Accepted(h)[a] < Accepted(h)[b]

\* C7: an oversized event is never placed in a batch, is counted as skipped,
\* and the run goes on: of a message of oversized events only, every event
\* the loop has passed is counted skipped, none added, none sent.
C7_OversizedSkipped ==
  \A h \in Handlers :
    LET r == handlers[h] IN
    /\ \A k \in DOMAIN r.items :
         Oversized(r.items[k]) =>
           k \notin Range(r.batch) /\ k \notin Range(Accepted(h))
    /\ (\A k \in DOMAIN r.items : Oversized(r.items[k])) =>
         /\ r.skipped = r.i - 1 /\ r.added = 0 /\ r.sent = 0
         /\ r.pc = "done" => r.skipped = Len(r.items)

C7_Witness ==
  \E h \in Handlers :
    LET r == handlers[h] IN
    /\ r.pc = "done" /\ Len(r.items) >= 2
    /\ \A k \in DOMAIN r.items : Oversized(r.items[k])
    /\ r.skipped = Len(r.items) /\ r.sent = 0

\* C8: the producer is closed and the process exited only when no handler is
\* awaiting createBatch or sendBatch.
C8_QuiescedBeforeClose ==
  (proc = "exited" \/ producer = "closed") =>
    \A h \in Handlers : handlers[h].pc \notin AwaitPcs

\* C9: the SIGINT handler ends the MQTT client first, and once the signal has
\* been received no invocation of the message handler begins.
C9_NoStartAfterSigint ==
  [][/\ proc' \in {"closing", "exited"} => mqtt' = "ended"
     /\ proc # "running" => \A h \in Handlers : ~Started(h) => ~Started(h)']_vars

C9_Witness ==
  /\ proc = "closing" /\ mqtt = "ended"
  /\ \E h \in Handlers : ~Started(h)
  /\ \E h \in Handlers : handlers[h].pc \in AwaitPcs

\* C10: an item whose transform throws is skipped, is never in a batch, does
\* not end the run, and the loop goes on to the items after it: the loop is
\* left only when the items are exhausted.
C10_TransformErrorRecordScoped ==
  [][\A h \in Handlers :
       LET r == handlers[h]
           n == handlers'[h]
       IN /\ \A k \in DOMAIN n.items :
               buildRowFromPayload(n.items[k]).threw =>
                 k \notin Range(n.batch) /\ k \notin Range(Accepted(h)')
          /\ (/\ cur = h /\ r.pc = "loop" /\ r.i <= Len(r.items)
              /\ buildRowFromPayload(r.items[r.i]).threw)
               => /\ n.pc = "loop" /\ n.i = r.i + 1 /\ cur' = h
                  /\ n.batch = r.batch /\ n.skipped = r.skipped + 1
                  /\ n.added = r.added /\ stream' = stream
          /\ (n.pc \in {"finalSend", "done"} /\ Len(n.items) > 0)
               => n.i = Len(n.items) + 1]_vars

C10_Witness ==
  \E h \in Handlers :
    LET r == handlers[h] IN
    /\ r.pc = "done" /\ Len(r.items) >= 2
    /\ buildRowFromPayload(r.items[1]).threw
    /\ 2 \in Range(Accepted(h))
    /\ r.skipped = 1 /\ r.added = 1

\* C11: no failure of an operation of the pipeline is dropped in silence:
\* each one leaves a log entry before the handler or the process moves on.
C11_EveryFailureLogged == dropped = {}

\* C12: the eventID is a function of the record alone: the same object
\* transformed twice, at whatever clock times, gets the same eventID.
C12_EventIdDeterministic ==
  \A a, b \in DOMAIN built :
    built[a].k = built[b].k => built[a].event.eventId = built[b].event.eventId

C12_Witness ==
  \E a, b \in DOMAIN built :
    /\ built[a].k = built[b].k
    /\ built[a].event.eventId # Undefined
    /\ built[a].event.row.insertDateTime # built[b].event.row.insertDateTime
    /\ built[a].event.receivedAtUtc # built[b].event.receivedAtUtc

\* C13: two records that differ in device, normalized timestamp or record
\* identity get different eventIDs.
C13_EventIdDistinguishes ==
  \A a, b \in DOMAIN built :
    (/\ built[a].event.eventId # Undefined
     /\ built[b].event.eventId # Undefined
     /\ recs[built[a].k] # recs[built[b].k])
      => built[a].event.eventId # built[b].event.eventId

\* The configuration values without which a program cannot run.
Required(p) ==
  IF p = "app.js"
  THEN {"FLESPI_TOKEN", "CHANNEL_ID", "EVENTHUB_CONNECTION_STRING", "EVENTHUB_NAME"}
  ELSE {"FLESPI_TOKEN", "CHANNEL_ID", "MYSQL_HOST", "MYSQL_USER", "MYSQL_DATABASE"}

\* C14: when a required configuration value is absent, startup fails before
\* an HTTP listener, MQTT client, producer or pool exists, and no message is
\* ever handled.
C14_MissingConfigFailsStartup ==
  ~(Required(prog) \subseteq env) =>
    /\ boot \in {"load", "failed"}
    /\ res = {}
    /\ ~handled

C14_Witness ==
  /\ boot = "failed" /\ res = {}
  /\ Cardinality(Required(prog) \ env) = 1
  /\ "PORT" \in env

\* C15: while the process is alive, every request to the liveness endpoint is
\* answered with status 200.
C15_LivenessAlways200 ==
  (boot \in {"columns", "running"} /\ probe.asked) => probe.status = 200

\* How far an invocation has got: it grows with every step the invocation
\* takes and is at most 3 * Len(items) + 5.
Rank(r) ==
  CASE r.pc = "idle" -> 0
    [] r.pc = "createBatch0" -> 1
    [] r.pc = "loop" -> 3 * r.i
    [] r.pc = "sendBatch" -> 3 * r.i + 1
    [] r.pc = "createBatch" -> 3 * r.i + 2
    [] r.pc = "finalSend" -> 3 * (Len(r.items) + 1) + 1
    [] OTHER -> 3 * (Len(r.items) + 1) + 2

\* The tryAdd calls and the sendBatch calls the loop may have made when it is
\* at item i: two appends and one flush for each item passed, one append and
\* one flush for the item whose flush or fresh batch is awaited.
InRetry(r) == IF r.pc \in {"sendBatch", "createBatch"} THEN 1 ELSE 0
AfterLoopSend(r) == IF r.pc \in {"finalSend"} \cup EndPcs THEN 1 ELSE 0

\* C16: for each event at most two append attempts and one flush; a message
\* of n items causes at most n + 1 sendBatch calls; every step of the handler
\* takes it forward, so it cannot loop.
C16_BoundedAttempts ==
  [][\A h \in Handlers :
       LET r == handlers[h]
           n == handlers'[h]
       IN /\ n.tryAdds <= 2 * (n.i - 1) + InRetry(n)
          /\ n.sends <= (n.i - 1) + InRetry(n) + AfterLoopSend(n)
          /\ n.sends <= Len(n.items) + 1
          /\ n.tryAdds - r.tryAdds <= 1 /\ n.sends - r.sends <= 1
          /\ n # r => Rank(n) > Rank(r)]_vars

C16_Witness ==
  \E h \in Handlers :
    LET r == handlers[h] IN
    /\ r.pc = "done" /\ Len(r.items) >= 2
    /\ r.tryAdds = 2 * Len(r.items) /\ r.sends = Len(r.items)

\* The object carries a device identifier that is not null and not empty.
HasDeviceId(p) == p.kind = "obj" /\ p.ident \notin {Absent, Null, ""}

\* C17: every event appended to a batch, and so every event sent, is of an
\* item with a non-empty device identifier; an item without one is skipped
\* before any append.
C17_AppendedHasDevice ==
  \A h \in Handlers :
    LET r == handlers[h] IN
    /\ \A k \in Range(r.batch) \cup Range(Accepted(h)) : HasDeviceId(r.items[k])
    /\ \A k \in DOMAIN r.items :
         (k < r.i /\ ~HasDeviceId(r.items[k]))
           => k \notin Range(r.batch) /\ k \notin Range(Accepted(h))

C17_Witness ==
  \E h \in Handlers :
    LET r == handlers[h] IN
    /\ r.pc = "done" /\ Len(r.items) >= 2
    /\ r.items[1].kind = "obj" /\ r.items[1].ident = ""
    /\ Accepted(h) = <<2>> /\ r.skipped = 1

\* What is no object and no non-empty array: text that is no JSON, a number,
\* string, boolean or null, and the empty array.
NoItems(payload) ==
  \/ payload.kind \in {"notjson", "scalar"}
  \/ payload.kind = "array" /\ payload.value = <<>>

\* C18: on a payload that is no JSON, or is neither an object nor a non-empty
\* array, the handler returns at once: no createBatch, tryAdd or sendBatch.
C18_NoItemsNoSideEffect ==
  /\ \A payload \in Payloads(1) :
       NoItems(payload) <=>
         OnMessage(IdleHandler, payload) = [IdleHandler EXCEPT !.pc = "done"]
  /\ \A h \in Handlers :
       LET r == handlers[h] IN
       (Started(h) /\ r.items = <<>>) =>
         /\ r.pc = "done" /\ r.batch = <<>> /\ stream[h] = <<>>
         /\ r.tryAdds = 0 /\ r.sends = 0 /\ r.added = 0 /\ r.sent = 0

C18_Witness ==
  /\ \E h \in Handlers : Started(h) /\ handlers[h].items = <<>>
  /\ \E h \in Handlers : handlers[h].sends > 0

\* The item carries a device identifier: the key ident with a non-empty value.
HasIdent(p) == p.kind = "obj" /\ "ident" \in p.has /\ p.ident # JStr("")

\* The item has a device identifier and its row a column of the table.
Insertable(p) ==
  /\ HasIdent(p)
  /\ Range(Keys(buildRowSql(p).entries)) \cap tableColsSet # {}

\* The loop of writer w has come to item k.
Reached(w, k) ==
  \/ k < writers[w].i
  \/ k = writers[w].i /\ writers[w].pc = "execute"

\* The items of the statements writer w issued, in the order of issue.
LogKs(w) == [j \in DOMAIN sqlLog[w] |-> sqlLog[w][j].k]

\* One statement at a time; a failure is caught inside the loop, which goes
\* on to the end of the items.
OneAtATime(w) ==
  /\ \A j \in DOMAIN sqlLog[w] :
       sqlLog[w][j].state = "pending" => j = Len(sqlLog[w]) /\ writers[w].pc = "execute"
  /\ writers[w].pc = "execute" =>
       Len(sqlLog[w]) > 0 /\ sqlLog[w][Len(sqlLog[w])].state = "pending"
  /\ writers[w].pc = "done" => writers[w].i = Len(writers[w].items) + 1

\* C19: the INSERTs a handler issues are exactly those of the items with a
\* device identifier, in item order, one at a time, and a failed INSERT does
\* not keep the later ones from being issued.
C19_InsertsExactlyIdentified ==
  \A w \in Writers :
    /\ LogKs(w) = Ascending({k \in DOMAIN writers[w].items :
                              Reached(w, k) /\ HasIdent(writers[w].items[k])})
    /\ OneAtATime(w)

\* C19, amended: ... exactly those of the items with a device identifier whose
\* row has at least one column of the loaded column set.
C19_InsertsExactlyInsertable ==
  \A w \in Writers :
    /\ LogKs(w) = Ascending({k \in DOMAIN writers[w].items :
                              Reached(w, k) /\ Insertable(writers[w].items[k])})
    /\ OneAtATime(w)

C19_Witness ==
  \E w \in Writers :
    /\ writers[w].pc = "done" /\ Len(writers[w].items) >= 2
    /\ LogKs(w) = <<1, 2>>
    /\ sqlLog[w][1].state = "failed" /\ sqlLog[w][2].state = "ok"

\* C20: an INSERT names only columns of the loaded column set, as many values
\* and placeholders as columns, each value the row's value of its column, and
\* no INSERT is issued for a row with no key in the set.
C20_InsertNamesLoadedColumns ==
  \A w \in Writers :
    /\ \A j \in DOMAIN sqlLog[w] :
         LET st == sqlLog[w][j].stmt
             row == buildRowSql(writers[w].items[sqlLog[w][j].k]).entries
         IN /\ Range(st.cols) \subseteq tableColsSet
            /\ Len(st.cols) > 0
            /\ Len(st.vals) = Len(st.cols) /\ st.placeholders = Len(st.cols)
            /\ \A a \in DOMAIN st.cols :
                 st.vals[a] = Get(row, st.cols[a]) /\ st.vals[a] # JNone
    /\ \A k \in DOMAIN writers[w].items :
         (/\ Reached(w, k)
          /\ Range(Keys(buildRowSql(writers[w].items[k]).entries)) \cap tableColsSet = {})
           => k \notin Range(LogKs(w))

C20_Witness ==
  \E w \in Writers :
    /\ writers[w].pc = "done" /\ Len(writers[w].items) >= 2
    /\ \E j \in DOMAIN sqlLog[w] :
         /\ Len(sqlLog[w][j].stmt.cols) = 1
         /\ Len(buildRowSql(writers[w].items[sqlLog[w][j].k]).entries) = 2
    /\ \E k \in DOMAIN writers[w].items :
         HasIdent(writers[w].items[k]) /\ k \notin Range(LogKs(w))

\* C21: sendBatch is never called on a batch with zero events.
C21_NoEmptySend ==
  \A h \in Handlers :
    handlers[h].pc \in {"sendBatch", "finalSend"} => Len(handlers[h].batch) > 0

\* The handler has run to its final log line (a return on no items logs none).
FinalLog(h) == handlers[h].pc = "done" /\ Len(handlers[h].items) > 0

\* C22: at the final log line the sent count equals the added count.
C22_SentEqualsAdded ==
  \A h \in Handlers : FinalLog(h) => handlers[h].sent = handlers[h].added

\* C23: every item the loop has passed is counted once, as added or as
\* skipped: after the loop added + skipped is the number of items.
C23_AddedPlusSkipped ==
  \A h \in Handlers :
    LET r == handlers[h] IN
    /\ r.added + r.skipped = r.i - 1
    /\ (r.pc = "finalSend" \/ FinalLog(h)) => r.added + r.skipped = Len(r.items)

C23_Witness ==
  \E h \in Handlers :
    LET r == handlers[h] IN
    /\ FinalLog(h) /\ Len(r.items) >= 2
    /\ r.sendFailed /\ r.added = 1 /\ r.skipped = 1

====
